---- MODULE Spec2Model ----
(***************************************************************************)
(* Model of the rental-offer index and query engine: the region tree       *)
(* (region_hierarchy.rs), the day-count index (number_of_days.rs) and the  *)
(* DBManager with its two RwLocks (db_manager.rs).                         *)
(***************************************************************************)
EXTENDS Integers, Sequences, FiniteSets, Bags, TLC

(***************************************************************************)
(* region_hierarchy.rs: the embedded region description ROOT_REGION.       *)
(* Names are dropped: Region deserializes only id and subregions.          *)
(***************************************************************************)
ROOT_REGION ==
  [id |-> 0, subregions |-> <<
    [id |-> 1, subregions |-> <<
      [id |-> 7, subregions |-> <<
        [id |-> 21, subregions |-> <<
          [id |-> 58, subregions |-> <<>>],
          [id |-> 59, subregions |-> <<>>] >>],
        [id |-> 22, subregions |-> <<
          [id |-> 60, subregions |-> <<>>],
          [id |-> 61, subregions |-> <<>>] >>],
        [id |-> 23, subregions |-> <<
          [id |-> 62, subregions |-> <<>>],
          [id |-> 63, subregions |-> <<>>] >>] >>],
      [id |-> 8, subregions |-> <<
        [id |-> 24, subregions |-> <<
          [id |-> 64, subregions |-> <<>>],
          [id |-> 65, subregions |-> <<>>] >>],
        [id |-> 25, subregions |-> <<
          [id |-> 66, subregions |-> <<>>],
          [id |-> 67, subregions |-> <<>>] >>],
        [id |-> 26, subregions |-> <<
          [id |-> 68, subregions |-> <<>>],
          [id |-> 69, subregions |-> <<>>] >>],
        [id |-> 27, subregions |-> <<
          [id |-> 70, subregions |-> <<>>],
          [id |-> 71, subregions |-> <<>>] >>],
        [id |-> 28, subregions |-> <<
          [id |-> 72, subregions |-> <<>>],
          [id |-> 73, subregions |-> <<>>] >>] >>],
      [id |-> 9, subregions |-> <<
        [id |-> 29, subregions |-> <<
          [id |-> 74, subregions |-> <<>>],
          [id |-> 75, subregions |-> <<>>] >>],
        [id |-> 30, subregions |-> <<
          [id |-> 76, subregions |-> <<>>],
          [id |-> 77, subregions |-> <<>>] >>] >>] >>],
    [id |-> 2, subregions |-> <<
      [id |-> 10, subregions |-> <<
        [id |-> 31, subregions |-> <<
          [id |-> 78, subregions |-> <<>>],
          [id |-> 79, subregions |-> <<>>],
          [id |-> 80, subregions |-> <<>>],
          [id |-> 81, subregions |-> <<>>] >>],
        [id |-> 32, subregions |-> <<
          [id |-> 82, subregions |-> <<>>],
          [id |-> 83, subregions |-> <<>>] >>],
        [id |-> 33, subregions |-> <<
          [id |-> 84, subregions |-> <<>>],
          [id |-> 85, subregions |-> <<>>] >>],
        [id |-> 34, subregions |-> <<
          [id |-> 86, subregions |-> <<>>],
          [id |-> 87, subregions |-> <<>>] >>],
        [id |-> 35, subregions |-> <<
          [id |-> 88, subregions |-> <<>>],
          [id |-> 89, subregions |-> <<>>] >>] >>],
      [id |-> 11, subregions |-> <<
        [id |-> 36, subregions |-> <<
          [id |-> 90, subregions |-> <<>>],
          [id |-> 91, subregions |-> <<>>] >>],
        [id |-> 37, subregions |-> <<
          [id |-> 92, subregions |-> <<>>],
          [id |-> 93, subregions |-> <<>>] >>] >>] >>],
    [id |-> 3, subregions |-> <<
      [id |-> 12, subregions |-> <<
        [id |-> 38, subregions |-> <<
          [id |-> 94, subregions |-> <<>>],
          [id |-> 95, subregions |-> <<>>] >>],
        [id |-> 39, subregions |-> <<
          [id |-> 96, subregions |-> <<>>],
          [id |-> 97, subregions |-> <<>>] >>] >>],
      [id |-> 13, subregions |-> <<
        [id |-> 40, subregions |-> <<
          [id |-> 98, subregions |-> <<>>],
          [id |-> 99, subregions |-> <<>>] >>],
        [id |-> 41, subregions |-> <<
          [id |-> 100, subregions |-> <<>>] >>],
        [id |-> 42, subregions |-> <<
          [id |-> 101, subregions |-> <<>>],
          [id |-> 102, subregions |-> <<>>] >>] >>],
      [id |-> 14, subregions |-> <<
        [id |-> 43, subregions |-> <<
          [id |-> 103, subregions |-> <<>>] >>],
        [id |-> 44, subregions |-> <<
          [id |-> 104, subregions |-> <<>>],
          [id |-> 105, subregions |-> <<>>] >>] >>] >>],
    [id |-> 4, subregions |-> <<
      [id |-> 15, subregions |-> <<
        [id |-> 45, subregions |-> <<
          [id |-> 106, subregions |-> <<>>],
          [id |-> 107, subregions |-> <<>>] >>],
        [id |-> 46, subregions |-> <<
          [id |-> 108, subregions |-> <<>>],
          [id |-> 109, subregions |-> <<>>] >>] >>],
      [id |-> 16, subregions |-> <<
        [id |-> 47, subregions |-> <<
          [id |-> 110, subregions |-> <<>>],
          [id |-> 111, subregions |-> <<>>] >>],
        [id |-> 48, subregions |-> <<
          [id |-> 112, subregions |-> <<>>],
          [id |-> 113, subregions |-> <<>>] >>] >>] >>],
    [id |-> 5, subregions |-> <<
      [id |-> 17, subregions |-> <<
        [id |-> 49, subregions |-> <<
          [id |-> 114, subregions |-> <<>>],
          [id |-> 115, subregions |-> <<>>] >>],
        [id |-> 50, subregions |-> <<
          [id |-> 116, subregions |-> <<>>],
          [id |-> 117, subregions |-> <<>>] >>] >>],
      [id |-> 18, subregions |-> <<
        [id |-> 51, subregions |-> <<
          [id |-> 118, subregions |-> <<>>] >>],
        [id |-> 52, subregions |-> <<
          [id |-> 119, subregions |-> <<>>],
          [id |-> 120, subregions |-> <<>>] >>] >>] >>],
    [id |-> 6, subregions |-> <<
      [id |-> 19, subregions |-> <<
        [id |-> 53, subregions |-> <<
          [id |-> 121, subregions |-> <<>>] >>],
        [id |-> 54, subregions |-> <<
          [id |-> 122, subregions |-> <<>>] >>],
        [id |-> 55, subregions |-> <<
          [id |-> 123, subregions |-> <<>>],
          [id |-> 124, subregions |-> <<>>] >>] >>],
      [id |-> 20, subregions |-> <<
        [id |-> 56, subregions |-> <<>>],
        [id |-> 57, subregions |-> <<>>] >>] >>] >>]

VARIABLES
  dense_store,  \* DenseStore.all: the sequence of stored offers
  regions,      \* RegionTree.regions: 0..124 -> [offers, sub_regions]
  days_map,     \* NumberOfDaysIndex.map: day count -> sequence of offer idx
  windows,      \* index-side copy of each idx's (start_date, end_date)
  store_lock,   \* DBManager.dense_store_lock: [writer, readers]
  index_lock,   \* DBManager.region_tree_lock: [writer, readers]
  pc,           \* position of every task
  q_req,        \* per query task: the request it was called with
  q_resp,       \* per query task: the response it built
  q_filtered,   \* per query task: its Vec filtered_offers when it ends
  q_after_cleanup, \* history: the query was called after a cleanup returned
  ing_offer,    \* per ingest task: the offer being ingested
  cleaned       \* history: a cleanup has returned and no ingest began since

vars == <<dense_store, regions, days_map, windows, store_lock, index_lock,
          pc, q_req, q_resp, q_filtered, q_after_cleanup, ing_offer, cleaned>>

(***************************************************************************)
(* Generic helpers.                                                        *)
(***************************************************************************)
Range(s) == {s[i] : i \in DOMAIN s}

EmptyMap == [k \in {} |-> 0]

None == [some |-> FALSE]

Some(v) == [some |-> TRUE, val |-> v]

Min2(a, b) == IF a <= b THEN a ELSE b

BagOfSeq(s) == [x \in Range(s) |-> Cardinality({i \in DOMAIN s : s[i] = x})]

RECURSIVE Concat(_)
Concat(ss) == IF ss = <<>> THEN <<>> ELSE Head(ss) \o Concat(Tail(ss))

(***************************************************************************)
(* region_hierarchy.rs: RegionTree.                                        *)
(* sub_regions is an Option<Vec<u8>>; it is only ever read through         *)
(* .iter().flatten(), which yields nothing for None, so None is <<>>.      *)
(***************************************************************************)
NumRegions == 125

RegionIds == 0 .. (NumRegions - 1)

RegionTreeElementDefault == [offers |-> <<>>, sub_regions |-> <<>>]

\* populate_with_regions_recursive, lines 24-32: the pushes it performs, in
\* the order it performs them (a push of subregion.id at regions[region.id],
\* then the recursion into that subregion, for each subregion in turn).
RECURSIVE PopulateWithRegionsRecursive(_)
RECURSIVE PopulateLoop(_, _)
PopulateLoopChildrenOnly(region, i) ==
  IF i > Len(region.subregions) THEN <<>>
  ELSE <<[at |-> region.id, id |-> region.subregions[i].id]>>
         \o PopulateLoop(region, i + 1)

PopulateLoop(region, i) ==
  IF i > Len(region.subregions) THEN <<>>
  ELSE LET subregion == region.subregions[i]
       IN <<[at |-> region.id, id |-> subregion.id]>>
            \o PopulateWithRegionsRecursive(subregion)
            \o PopulateLoop(region, i + 1)

PopulateWithRegionsRecursive(region) == PopulateLoop(region, 1)

\* populate_with_regions, lines 17-22: 125 default elements, then the pushes
PopulateWithRegions(root) ==
  LET pushes == PopulateWithRegionsRecursive(root)
  IN [r \in RegionIds |->
        LET mine == SelectSeq(pushes, LAMBDA push : push.at = r)
        IN [RegionTreeElementDefault EXCEPT
              !.sub_regions = [k \in 1 .. Len(mine) |-> mine[k].id]]]

\* regions[region_id as usize]: the Vec index panics outside 0..124
RegionInBounds(tree, region_id) == region_id \in DOMAIN tree

RECURSIVE GetAvailableOffersRecursive(_, _)
RECURSIVE FlatMapSubRegions(_, _, _)
FlatMapSubRegionsBackwards(tree, subs, i) ==
  IF i > Len(subs) THEN <<>>
  ELSE FlatMapSubRegions(tree, subs, i + 1) \o GetAvailableOffersRecursive(tree, subs[i])

FlatMapSubRegions(tree, subs, i) ==
  IF i > Len(subs) THEN <<>>
  ELSE GetAvailableOffersRecursive(tree, subs[i]) \o FlatMapSubRegions(tree, subs, i + 1)

GetAvailableOffersRecursiveSkipsSelf(tree, region_id) ==
  FlatMapSubRegions(tree, tree[region_id].sub_regions, 1)

GetAvailableOffersRecursive(tree, region_id) ==
  tree[region_id].offers \o FlatMapSubRegions(tree, tree[region_id].sub_regions, 1)

GetAvailableOffers(tree, region_id) == GetAvailableOffersRecursive(tree, region_id)

ClearOffersDropsChildren(tree) ==
  [r \in DOMAIN tree |-> [tree[r] EXCEPT !.offers = <<>>, !.sub_regions = <<>>]]

ClearOffers(tree) == [r \in DOMAIN tree |-> [tree[r] EXCEPT !.offers = <<>>]]

InsertOffer(tree, region_id, offer_idx) ==
  [tree EXCEPT ![region_id].offers = Append(@, offer_idx)]

InsertOffers(tree, region_id, offer_idxs) ==
  [tree EXCEPT ![region_id].offers = @ \o offer_idxs]

(***************************************************************************)
(* number_of_days.rs: NumberOfDaysIndex.                                   *)
(***************************************************************************)
MsPerDay == 1000 * 60 * 60 * 24

DaysOf(offer) == (offer.end_date - offer.start_date) \div MsPerDay

IndexOfferKeyedByEnd(map, offer) ==
  LET days == offer.end_date \div MsPerDay
  IN IF days \in DOMAIN map THEN [map EXCEPT ![days] = Append(@, offer.idx)]
     ELSE map @@ (days :> <<offer.idx>>)

IndexOffer(map, offer) ==
  LET days == DaysOf(offer)
  IN IF days \in DOMAIN map THEN [map EXCEPT ![days] = Append(@, offer.idx)]
     ELSE map @@ (days :> <<offer.idx>>)

FilterOffersIgnoresDays(map, days, offers) == offers

FilterOffers(map, days, offers) ==
  LET set == IF days \in DOMAIN map THEN Range(map[days]) ELSE {}
  IN SelectSeq(offers, LAMBDA offer : offer \in set)

(***************************************************************************)
(* IndexTree (crate::index_tree, called at db_manager.rs:45 and :474): the  *)
(* region tree, the day-count index and the time-window test behind one     *)
(* lock.  Its source is not part of the repository snapshot; it is         *)
(* assembled here from the two index types above as the design describes.   *)
(***************************************************************************)
InTimeRange(wins, offer_idx, time_range_start, time_range_end) ==
  /\ time_range_start <= wins[offer_idx].start_date
  /\ wins[offer_idx].end_date <= time_range_end

IndexTreeGetAvailableOffers(tree, map, wins, region_id, number_days, time_range_start, time_range_end) ==
  SelectSeq(FilterOffers(map, number_days, GetAvailableOffers(tree, region_id)),
            LAMBDA offer_idx :
              InTimeRange(wins, offer_idx, time_range_start, time_range_end))

IndexTreeInsert(index, offer) ==
  [tree |-> InsertOffer(index.tree, offer.most_specific_region_id, offer.idx),
   map  |-> IndexOffer(index.map, offer),
   wins |-> (offer.idx :> [start_date |-> offer.start_date,
                           end_date |-> offer.end_date]) @@ index.wins]

IndexTreeClearOffers(index) ==
  [tree |-> ClearOffers(index.tree), map |-> EmptyMap, wins |-> EmptyMap]

(***************************************************************************)
(* db_manager.rs: DenseStore and the ingest of one offer.  The ingest       *)
(* handler is not part of the repository snapshot: the offer gets           *)
(* idx = its position in the store, is pushed and is registered.            *)
(***************************************************************************)
DenseStoreInsert(all, offer) == Append(all, offer)

WithIdx(offer, store) ==
  [id |-> offer.id, data |-> offer.data,
   most_specific_region_id |-> offer.most_specific_region_id,
   start_date |-> offer.start_date, end_date |-> offer.end_date,
   number_seats |-> offer.number_seats, price |-> offer.price,
   car_type |-> offer.car_type, has_vollkasko |-> offer.has_vollkasko,
   free_kilometers |-> offer.free_kilometers, idx |-> Len(store)]

(***************************************************************************)
(* db_manager.rs: DBManager::query_for, lines 72-157: the loop body.       *)
(***************************************************************************)
EqMe(self, other) ==
  <<self, other>> \in {<<"Small", "Small">>, <<"Sports", "Sports">>,
                       <<"Luxury", "Luxury">>, <<"Family", "Family">>}

SeatsInclStrictlyMore(req, offer) ==
  ~(req.min_number_seats.some /\ offer.number_seats <= req.min_number_seats.val)

SeatsIncl(req, offer) ==
  ~(req.min_number_seats.some /\ offer.number_seats < req.min_number_seats.val)

CarTypeIncl(req, offer) ==
  ~(req.car_type.some /\ ~EqMe(offer.car_type, req.car_type.val))

OnlyVollkaskoWheneverSet(req, offer) ==
  ~(req.only_vollkasko.some /\ ~offer.has_vollkasko)

OnlyVollkaskoIgnored(req, offer) ==
  ~(req.only_vollkasko.some /\ req.only_vollkasko.val /\ ~offer.has_vollkasko)

FreeKilometersIncl(req, offer) ==
  ~(req.min_free_kilometer.some /\ offer.free_kilometers < req.min_free_kilometer.val)

PriceRangeInclInclusiveMax(req, offer) ==
  /\ ~(req.max_price.some /\ req.max_price.val < offer.price)
  /\ ~(req.min_price.some /\ req.min_price.val > offer.price)

PriceRangeIncl(req, offer) ==
  /\ ~(req.max_price.some /\ req.max_price.val <= offer.price)
  /\ ~(req.min_price.some /\ req.min_price.val > offer.price)

MapEntryInc(m, k) ==
  IF k \in DOMAIN m THEN [m EXCEPT ![k] = @ + 1] ELSE m @@ (k :> 1)

HandleSeatsCount(acc, offer) ==
  [acc EXCEPT !.seats_count_map = MapEntryInc(@, offer.number_seats)]

HandlePriceRange(acc, req, offer) ==
  LET lower_bound == (offer.price \div req.price_range_width) * req.price_range_width
  IN [acc EXCEPT !.price_range_interval_mapping = MapEntryInc(@, lower_bound)]

HandleFreeKilometersRange(acc, req, offer) ==
  LET lower_bound == (offer.free_kilometers \div req.min_free_kilometer_width)
                       * req.min_free_kilometer_width
  IN [acc EXCEPT !.free_kilometers_interval_mapping = MapEntryInc(@, lower_bound)]

HandleCarTypeCount(acc, offer) ==
  CASE offer.car_type = "Small"  -> [acc EXCEPT !.car_type_count.small = @ + 1]
    [] offer.car_type = "Sports" -> [acc EXCEPT !.car_type_count.sports = @ + 1]
    [] offer.car_type = "Luxury" -> [acc EXCEPT !.car_type_count.luxury = @ + 1]
    [] offer.car_type = "Family" -> [acc EXCEPT !.car_type_count.family = @ + 1]

HandleVollkaskoCount(acc, offer) ==
  IF offer.has_vollkasko
  THEN [acc EXCEPT !.vollkasko_count.true_count = @ + 1]
  ELSE [acc EXCEPT !.vollkasko_count.false_count = @ + 1]

AccInitCountsOne ==
  [filtered_offers |-> <<>>,
   vollkasko_count |-> [true_count |-> 0, false_count |-> 1],
   car_type_count |-> [small |-> 0, sports |-> 0, luxury |-> 0, family |-> 0],
   free_kilometers_interval_mapping |-> EmptyMap,
   price_range_interval_mapping |-> EmptyMap,
   seats_count_map |-> EmptyMap]

AccInit ==
  [filtered_offers |-> <<>>,
   vollkasko_count |-> [true_count |-> 0, false_count |-> 0],
   car_type_count |-> [small |-> 0, sports |-> 0, luxury |-> 0, family |-> 0],
   free_kilometers_interval_mapping |-> EmptyMap,
   price_range_interval_mapping |-> EmptyMap,
   seats_count_map |-> EmptyMap]

HandleAllTrue(acc, req, offer) ==
  HandleSeatsCount(
    HandlePriceRange(
      HandleFreeKilometersRange(
        HandleCarTypeCount(
          HandleVollkaskoCount(
            [acc EXCEPT !.filtered_offers = Append(@, offer)], offer),
          offer),
        req, offer),
      req, offer),
    offer)

HandleOfferCountsWhenTwoFail(acc, req, offer) ==
  LET flags == <<SeatsIncl(req, offer), CarTypeIncl(req, offer),
                 OnlyVollkaskoIgnored(req, offer), FreeKilometersIncl(req, offer),
                 PriceRangeIncl(req, offer)>>
  IN CASE flags = <<TRUE, TRUE, TRUE, TRUE, TRUE>> -> HandleAllTrue(acc, req, offer)
       [] flags[1] /\ flags[2] /\ flags[3] /\ flags[4] /\ ~flags[5] ->
            HandlePriceRange(acc, req, offer)
       [] flags[1] /\ flags[2] /\ flags[3] /\ ~flags[4] -> \* price not looked at
            HandleFreeKilometersRange(acc, req, offer)
       [] flags = <<TRUE, TRUE, FALSE, TRUE, TRUE>> -> HandleVollkaskoCount(acc, offer)
       [] flags = <<TRUE, FALSE, TRUE, TRUE, TRUE>> -> HandleCarTypeCount(acc, offer)
       [] flags = <<FALSE, TRUE, TRUE, TRUE, TRUE>> -> HandleSeatsCount(acc, offer)
       [] OTHER -> acc

HandleOffer(acc, req, offer) ==
  LET flags == <<SeatsIncl(req, offer), CarTypeIncl(req, offer),
                 OnlyVollkaskoIgnored(req, offer), FreeKilometersIncl(req, offer),
                 PriceRangeIncl(req, offer)>>
  IN CASE flags = <<TRUE, TRUE, TRUE, TRUE, TRUE>> -> HandleAllTrue(acc, req, offer)
       [] flags = <<TRUE, TRUE, TRUE, TRUE, FALSE>> -> HandlePriceRange(acc, req, offer)
       [] flags = <<TRUE, TRUE, TRUE, FALSE, TRUE>> ->
            HandleFreeKilometersRange(acc, req, offer)
       [] flags = <<TRUE, TRUE, FALSE, TRUE, TRUE>> -> HandleVollkaskoCount(acc, offer)
       [] flags = <<TRUE, FALSE, TRUE, TRUE, TRUE>> -> HandleCarTypeCount(acc, offer)
       [] flags = <<FALSE, TRUE, TRUE, TRUE, TRUE>> -> HandleSeatsCount(acc, offer)
       [] OTHER -> acc

RECURSIVE HandleOffers(_, _, _)
HandleOffers(acc, req, offers) ==
  IF offers = <<>> THEN acc
  ELSE HandleOffers(HandleOffer(acc, req, Head(offers)), req, Tail(offers))

(***************************************************************************)
(* db_manager.rs: query_for lines 159-200 and sort_orders_and_paginate.    *)
(***************************************************************************)
RECURSIVE SortedKeys(_)
SortedKeysDescending(S) ==
  IF S = {} THEN <<>>
  ELSE LET greatest == CHOOSE k \in S : \A other \in S : k >= other
       IN <<greatest>> \o SortedKeys(S \ {greatest})

SortedKeys(S) ==
  IF S = {} THEN <<>>
  ELSE LET least == CHOOSE k \in S : \A other \in S : k <= other
       IN <<least>> \o SortedKeys(S \ {least})

RangesOf(mapping, width) ==
  LET keys == SortedKeys(DOMAIN mapping)
  IN [i \in 1 .. Len(keys) |->
        [start |-> keys[i], end |-> keys[i] + width, count |-> mapping[keys[i]]]]

\* seats_count is collected in hash-map iteration order, which the program
\* does not fix: the response field is modelled as the set of its entries.
SeatCountsOf(mapping) ==
  {[number_seats |-> k, count |-> mapping[k]] : k \in DOMAIN mapping}

Cmp(a, b) == IF a < b THEN -1 ELSE IF a = b THEN 0 ELSE 1

CompareOffersIdFollowsPrice(sort_order, a, b) ==
  IF sort_order = "PriceAsc"
  THEN LET comp == Cmp(a.price, b.price)
       IN IF comp = 0 THEN Cmp(a.id, b.id) ELSE comp
  ELSE LET comp == Cmp(b.price, a.price)
       IN IF comp = 0 THEN Cmp(b.id, a.id) ELSE comp

CompareOffers(sort_order, a, b) ==
  IF sort_order = "PriceAsc"
  THEN LET comp == Cmp(a.price, b.price)
       IN IF comp = 0 THEN Cmp(a.id, b.id) ELSE comp
  ELSE LET comp == Cmp(b.price, a.price)
       IN IF comp = 0 THEN Cmp(a.id, b.id) ELSE comp

\* Vec::sort_by is a stable sort: an element goes after every element that
\* does not compare greater than it.
InsertStable(sorted, x, sort_order) ==
  LET n == Cardinality({i \in DOMAIN sorted : CompareOffers(sort_order, sorted[i], x) <= 0})
  IN SubSeq(sorted, 1, n) \o <<x>> \o SubSeq(sorted, n + 1, Len(sorted))

RECURSIVE SortBy(_, _, _)
SortBy(sorted, rest, sort_order) ==
  IF rest = <<>> THEN sorted
  ELSE SortBy(InsertStable(sorted, Head(rest), sort_order), Tail(rest), sort_order)

ResponseOfferOf(o) == [ID |-> o.id, data |-> o.data]

SkipTakeOffByOne(sorted, page, page_size) ==
  LET skip == (page + 1) * page_size
  IN SubSeq(sorted, skip + 1, Min2(Len(sorted), skip + page_size))

SkipTake(sorted, page, page_size) ==
  LET skip == page * page_size
  IN SubSeq(sorted, skip + 1, Min2(Len(sorted), skip + page_size))

\* offers.sort_by(..) sorts the caller's Vec in place (lines 331-346).
SortOrders(offers, req) == SortBy(<<>>, offers, req.sort_order)

SortOrdersAndPaginate(offers, req) ==
  IF offers = <<>> THEN <<>>
  ELSE LET paged == SkipTake(SortOrders(offers, req), req.page, req.page_size)
       IN [i \in 1 .. Len(paged) |-> ResponseOfferOf(paged[i])]

PanicResponse ==
  [status |-> "panic", offers |-> <<>>, price_ranges |-> <<>>,
   car_type_counts |-> [small |-> 0, sports |-> 0, luxury |-> 0, family |-> 0],
   seats_count |-> {}, free_kilometer_range |-> <<>>,
   vollkasko_count |-> [true_count |-> 0, false_count |-> 0]]

OkResponseZeroPastEnd(acc, req) ==
  LET paged == SortOrdersAndPaginate(acc.filtered_offers, req)
  IN [status |-> "ok",
      offers |-> paged,
      price_ranges |->
        IF paged = <<>> THEN <<>>
        ELSE RangesOf(acc.price_range_interval_mapping, req.price_range_width),
      car_type_counts |->
        IF paged = <<>> THEN [small |-> 0, sports |-> 0, luxury |-> 0, family |-> 0]
        ELSE acc.car_type_count,
      seats_count |-> IF paged = <<>> THEN {} ELSE SeatCountsOf(acc.seats_count_map),
      free_kilometer_range |->
        IF paged = <<>> THEN <<>>
        ELSE RangesOf(acc.free_kilometers_interval_mapping, req.min_free_kilometer_width),
      vollkasko_count |->
        IF paged = <<>> THEN [true_count |-> 0, false_count |-> 0]
        ELSE acc.vollkasko_count]

OkResponse(acc, req) ==
  [status |-> "ok",
   offers |-> SortOrdersAndPaginate(acc.filtered_offers, req),
   price_ranges |-> RangesOf(acc.price_range_interval_mapping, req.price_range_width),
   car_type_counts |-> acc.car_type_count,
   seats_count |-> SeatCountsOf(acc.seats_count_map),
   free_kilometer_range |->
     RangesOf(acc.free_kilometers_interval_mapping, req.min_free_kilometer_width),
   vollkasko_count |-> acc.vollkasko_count]

\* The candidate indices of a request (db_manager.rs:45-51).
CandidateIdxs(index, req) ==
  IndexTreeGetAvailableOffers(index.tree, index.map, index.wins, req.region_id,
                              req.number_days, req.time_range_start, req.time_range_end)

\* .map(|offer_idx| &dense_store.all[offer_idx as usize]) (db_manager.rs:52)
CandidateOffers(store, index, req) ==
  LET idxs == CandidateIdxs(index, req)
  IN [k \in 1 .. Len(idxs) |-> store[idxs[k] + 1]]

\* The Vec indexings that abort the call: regions[region_id] in the tree and
\* all[offer_idx] in the store.
QueryPanics(store, index, req) ==
  \/ ~RegionInBounds(index.tree, req.region_id)
  \/ \E offer_idx \in Range(CandidateIdxs(index, req)) : offer_idx >= Len(store)

\* lines 54-157: the accumulators after the loop over the candidates
QueryAcc(store, index, req) ==
  HandleOffers(AccInit, req, CandidateOffers(store, index, req))

QueryFor(store, index, req) ==
  IF QueryPanics(store, index, req) THEN PanicResponse
  ELSE OkResponse(QueryAcc(store, index, req), req)

\* The local Vec filtered_offers as the call leaves it: sorted in place by
\* sort_orders_and_paginate (left empty by its early return).
QueryFiltered(store, index, req) ==
  IF QueryPanics(store, index, req) THEN <<>>
  ELSE SortOrders(QueryAcc(store, index, req).filtered_offers, req)

(***************************************************************************)
(* Inputs: the offers that are ingested and the requests that are asked.   *)
(***************************************************************************)
MaxStore == 2    \* offers held by the store in Spec

MaxOffers == 3   \* offers held by the store in SpecQuery

MaxTreeOffers == 3  \* indices registered in the tree in SpecTree

MaxIdx == 1      \* largest offer index registered in SpecTree

MaxPage == 2     \* largest page asked for

MaxPageSize == 2 \* largest page size asked for

MkOffer(id, region, start, end, seats, price, car_type, vollkasko, km) ==
  [id |-> id, data |-> id * 100 + price, most_specific_region_id |-> region,
   start_date |-> start, end_date |-> end, number_seats |-> seats,
   price |-> price, car_type |-> car_type, has_vollkasko |-> vollkasko,
   free_kilometers |-> km]

OfferA == MkOffer(2, 7, 0, MsPerDay, 4, 10, "Small", TRUE, 10)

OfferB == MkOffer(3, 21, 0, MsPerDay, 2, 11, "Sports", FALSE, 5)

OfferC == MkOffer(1, 58, 0, MsPerDay, 4, 10, "Small", FALSE, 10)

OfferD == MkOffer(4, 7, 0, MsPerDay, 4, 9, "Luxury", TRUE, 5)

OfferE == MkOffer(5, 8, 0, MsPerDay, 4, 10, "Family", TRUE, 10)

Catalogue == {OfferA, OfferB, OfferC, OfferD, OfferE}

SmallOffers == {OfferA, OfferB}

MkRequest(region_id, sort_order, page, page_size, seats, car_type, vollkasko, km, min_price, max_price) ==
  [region_id |-> region_id, time_range_start |-> 0, time_range_end |-> MsPerDay,
   number_days |-> 1, sort_order |-> sort_order, page |-> page,
   page_size |-> page_size, price_range_width |-> 2,
   min_free_kilometer_width |-> 5, min_number_seats |-> seats,
   min_price |-> min_price, max_price |-> max_price, car_type |-> car_type,
   only_vollkasko |-> vollkasko, min_free_kilometer |-> km]

\* every combination of the optional filters, on the first page
FacetRequests ==
  {MkRequest(7, "PriceAsc", 0, MaxPageSize, seats, car_type, vollkasko, km,
             price[1], price[2]) :
     seats \in {None, Some(4)}, car_type \in {None, Some("Small")},
     vollkasko \in {None, Some(TRUE), Some(FALSE)}, km \in {None, Some(10)},
     price \in {<<None, None>>, <<None, Some(11)>>, <<Some(10), None>>,
                <<Some(10), Some(11)>>}}

\* every page, page size and sort order, with no optional filter
PageRequests ==
  {MkRequest(1, sort_order, page, page_size, None, None, None, None, None, None) :
     sort_order \in {"PriceAsc", "PriceDesc"}, page \in 0 .. MaxPage,
     page_size \in 1 .. MaxPageSize}

\* region ids past the last region of the table
OutOfRangeRequests ==
  {MkRequest(region_id, "PriceAsc", 0, MaxPageSize, None, None, None, None, None, None) :
     region_id \in {NumRegions, 255}}

QueryRequests == FacetRequests \cup PageRequests \cup OutOfRangeRequests

SmallRequests ==
  {MkRequest(0, "PriceAsc", 0, MaxPageSize, None, None, None, None, None, None),
   MkRequest(7, "PriceDesc", 0, MaxPageSize, None, Some("Small"), None, None, None, None),
   MkRequest(NumRegions, "PriceAsc", 0, MaxPageSize, None, None, None, None, None, None)}

(***************************************************************************)
(* The tasks.                                                              *)
(***************************************************************************)
Queries == {"q1", "q2"}

Ingests == {"i1"}

Cleanups == {"c1"}

\* the tasks that call cleanup in SpecFair
FairCleanups == Cleanups \cup {"c2"}

Tasks == Queries \cup Ingests \cup FairCleanups

NoRequest == [none |-> TRUE]

NoResponse == [none |-> TRUE]

NoOffer == [none |-> TRUE]

\* waiters: the tasks queued for the lock, first come first (SpecFair only)
Unlocked == [writer |-> "none", readers |-> {}, waiters |-> <<>>]

Index == [tree |-> regions, map |-> days_map, wins |-> windows]

\* DBManager::new and the tasks before any call
Init ==
  /\ dense_store = <<>>
  /\ regions = PopulateWithRegions(ROOT_REGION)
  /\ days_map = EmptyMap
  /\ windows = EmptyMap
  /\ store_lock = Unlocked
  /\ index_lock = Unlocked
  /\ pc = [t \in Tasks |-> "idle"]
  /\ q_req = [t \in Queries |-> NoRequest]
  /\ q_resp = [t \in Queries |-> NoResponse]
  /\ q_filtered = [t \in Queries |-> <<>>]
  /\ q_after_cleanup = [t \in Queries |-> FALSE]
  /\ ing_offer = [t \in Ingests |-> NoOffer]
  /\ cleaned = FALSE

\* tokio RwLock: read() is granted while no writer holds the lock,
\* write() while nobody holds it.
CanRead(lock) == lock.writer = "none"

CanWriteBesideReaders(lock) == lock.writer = "none"

CanWrite(lock) == lock.writer = "none" /\ lock.readers = {}

shared == <<dense_store, regions, days_map, windows>>

locks == <<store_lock, index_lock>>

qlocal == <<q_req, q_resp, q_filtered, q_after_cleanup>>

(***************************************************************************)
(* db_manager.rs: DBManager::query_for as a task.                          *)
(***************************************************************************)
QueryCall(t, req) ==
  /\ pc[t] = "idle"
  /\ pc' = [pc EXCEPT ![t] = "q_wait_store"]
  /\ q_req' = [q_req EXCEPT ![t] = req]
  /\ q_after_cleanup' = [q_after_cleanup EXCEPT ![t] = cleaned]
  /\ UNCHANGED <<shared, locks, q_resp, q_filtered, ing_offer, cleaned>>

\* line 43: self.dense_store_lock.read().await
QueryLockStore(t) ==
  /\ pc[t] = "q_wait_store"
  /\ CanRead(store_lock)
  /\ store_lock' = [store_lock EXCEPT !.readers = @ \cup {t}]
  /\ pc' = [pc EXCEPT ![t] = "q_wait_index"]
  /\ UNCHANGED <<shared, index_lock, qlocal, ing_offer, cleaned>>

\* line 44: self.region_tree_lock.read().await
QueryLockIndex(t) ==
  /\ pc[t] = "q_wait_index"
  /\ CanRead(index_lock)
  /\ index_lock' = [index_lock EXCEPT !.readers = @ \cup {t}]
  /\ pc' = [pc EXCEPT ![t] = "q_run"]
  /\ UNCHANGED <<shared, store_lock, qlocal, ing_offer, cleaned>>

QueryRunSortsStore(t) ==
  /\ pc[t] = "q_run"
  /\ q_resp' = [q_resp EXCEPT ![t] = QueryFor(dense_store, Index, q_req[t])]
  /\ q_filtered' = [q_filtered EXCEPT ![t] = QueryFiltered(dense_store, Index, q_req[t])]
  /\ dense_store' = SortOrders(dense_store, q_req[t])
  /\ pc' = [pc EXCEPT ![t] = "q_done"]
  /\ UNCHANGED <<regions, days_map, windows, locks, q_req, q_after_cleanup, ing_offer, cleaned>>

\* lines 45-199: no suspension point; the response is built under both guards
QueryRun(t) ==
  /\ pc[t] = "q_run"
  /\ q_resp' = [q_resp EXCEPT ![t] = QueryFor(dense_store, Index, q_req[t])]
  /\ q_filtered' = [q_filtered EXCEPT ![t] = QueryFiltered(dense_store, Index, q_req[t])]
  /\ pc' = [pc EXCEPT ![t] = "q_done"]
  /\ UNCHANGED <<shared, locks, q_req, q_after_cleanup, ing_offer, cleaned>>

\* line 200: the call returns (or unwinds), both guards are dropped
QueryReturn(t) ==
  /\ pc[t] = "q_done"
  /\ store_lock' = [store_lock EXCEPT !.readers = @ \ {t}]
  /\ index_lock' = [index_lock EXCEPT !.readers = @ \ {t}]
  /\ pc' = [pc EXCEPT ![t] = "idle"]
  /\ q_req' = [q_req EXCEPT ![t] = NoRequest]
  /\ q_resp' = [q_resp EXCEPT ![t] = NoResponse]
  /\ q_filtered' = [q_filtered EXCEPT ![t] = <<>>]
  /\ q_after_cleanup' = [q_after_cleanup EXCEPT ![t] = FALSE]
  /\ UNCHANGED <<shared, ing_offer, cleaned>>

(***************************************************************************)
(* db_manager.rs: DBManager::cleanup, lines 471-481.                       *)
(***************************************************************************)
CleanupCall(t) ==
  /\ pc[t] = "idle"
  /\ pc' = [pc EXCEPT ![t] = "c_wait_index"]
  /\ UNCHANGED <<shared, locks, qlocal, ing_offer, cleaned>>

\* line 473: self.region_tree_lock.write().await
CleanupLockIndex(t) ==
  /\ pc[t] = "c_wait_index"
  /\ CanWrite(index_lock)
  /\ index_lock' = [index_lock EXCEPT !.writer = t]
  /\ pc' = [pc EXCEPT ![t] = "c_clear_index"]
  /\ UNCHANGED <<shared, store_lock, qlocal, ing_offer, cleaned>>

\* lines 474-475: clear_offers(), then the block ends and drops the guard
CleanupClearIndex(t) ==
  /\ pc[t] = "c_clear_index"
  /\ regions' = IndexTreeClearOffers(Index).tree
  /\ days_map' = IndexTreeClearOffers(Index).map
  /\ windows' = IndexTreeClearOffers(Index).wins
  /\ index_lock' = [index_lock EXCEPT !.writer = "none"]
  /\ pc' = [pc EXCEPT ![t] = "c_wait_store"]
  /\ UNCHANGED <<dense_store, store_lock, qlocal, ing_offer, cleaned>>

\* line 477: self.dense_store_lock.write().await
CleanupLockStore(t) ==
  /\ pc[t] = "c_wait_store"
  /\ CanWrite(store_lock)
  /\ store_lock' = [store_lock EXCEPT !.writer = t]
  /\ pc' = [pc EXCEPT ![t] = "c_clear_store"]
  /\ UNCHANGED <<shared, index_lock, qlocal, ing_offer, cleaned>>

\* lines 478-480: all.clear(), the guard is dropped, Ok(()) is returned
CleanupClearStore(t) ==
  /\ pc[t] = "c_clear_store"
  /\ dense_store' = <<>>
  /\ store_lock' = [store_lock EXCEPT !.writer = "none"]
  /\ pc' = [pc EXCEPT ![t] = "idle"]
  /\ cleaned' = (\A i \in Ingests : pc[i] = "idle")
  /\ UNCHANGED <<regions, days_map, windows, index_lock, qlocal, ing_offer>>

(***************************************************************************)
(* The ingest of one offer: exclusive access to the store and the index    *)
(* just long enough to append and register.                                *)
(***************************************************************************)
IngestCall(t, offer) ==
  /\ pc[t] = "idle"
  /\ Len(dense_store) < MaxStore
  /\ pc' = [pc EXCEPT ![t] = "i_wait_store"]
  /\ ing_offer' = [ing_offer EXCEPT ![t] = offer]
  /\ cleaned' = FALSE
  /\ UNCHANGED <<shared, locks, qlocal>>

IngestLockStore(t) ==
  /\ pc[t] = "i_wait_store"
  /\ CanWrite(store_lock)
  /\ store_lock' = [store_lock EXCEPT !.writer = t]
  /\ pc' = [pc EXCEPT ![t] = "i_wait_index"]
  /\ UNCHANGED <<shared, index_lock, qlocal, ing_offer, cleaned>>

IngestLockIndex(t) ==
  /\ pc[t] = "i_wait_index"
  /\ CanWrite(index_lock)
  /\ index_lock' = [index_lock EXCEPT !.writer = t]
  /\ pc' = [pc EXCEPT ![t] = "i_write"]
  /\ UNCHANGED <<shared, store_lock, qlocal, ing_offer, cleaned>>

IngestWrite(t) ==
  /\ pc[t] = "i_write"
  /\ LET offer == WithIdx(ing_offer[t], dense_store)
         index == IndexTreeInsert(Index, offer)
     IN /\ dense_store' = DenseStoreInsert(dense_store, offer)
        /\ regions' = index.tree
        /\ days_map' = index.map
        /\ windows' = index.wins
  /\ store_lock' = [store_lock EXCEPT !.writer = "none"]
  /\ index_lock' = [index_lock EXCEPT !.writer = "none"]
  /\ pc' = [pc EXCEPT ![t] = "idle"]
  /\ ing_offer' = [ing_offer EXCEPT ![t] = NoOffer]
  /\ UNCHANGED <<qlocal, cleaned>>

Next ==
  \/ \E t \in Queries : \E req \in SmallRequests : QueryCall(t, req)
  \/ \E t \in Queries : QueryLockStore(t)
  \/ \E t \in Queries : QueryLockIndex(t)
  \/ \E t \in Queries : QueryRun(t)
  \/ \E t \in Queries : QueryReturn(t)
  \/ \E t \in Cleanups : CleanupCall(t)
  \/ \E t \in Cleanups : CleanupLockIndex(t)
  \/ \E t \in Cleanups : CleanupClearIndex(t)
  \/ \E t \in Cleanups : CleanupLockStore(t)
  \/ \E t \in Cleanups : CleanupClearStore(t)
  \/ \E t \in Ingests : \E offer \in SmallOffers : IngestCall(t, offer)
  \/ \E t \in Ingests : IngestLockStore(t)
  \/ \E t \in Ingests : IngestLockIndex(t)
  \/ \E t \in Ingests : IngestWrite(t)

Spec == Init /\ [][Next]_vars

(***************************************************************************)
(* SpecQuery: one caller at a time, so every lock is free when asked for:  *)
(* an ingest or a query runs from call to return in one step.              *)
(***************************************************************************)
SeqIngest(offer) ==
  /\ Len(dense_store) < MaxOffers
  /\ LET stored == WithIdx(offer, dense_store)
         index == IndexTreeInsert(Index, stored)
     IN /\ dense_store' = DenseStoreInsert(dense_store, stored)
        /\ regions' = index.tree
        /\ days_map' = index.map
        /\ windows' = index.wins
  /\ pc' = [pc EXCEPT !["q1"] = "idle", !["c1"] = "idle"]
  /\ q_req' = [q_req EXCEPT !["q1"] = NoRequest]
  /\ q_resp' = [q_resp EXCEPT !["q1"] = NoResponse]
  /\ q_filtered' = [q_filtered EXCEPT !["q1"] = <<>>]
  /\ cleaned' = FALSE
  /\ UNCHANGED <<locks, q_after_cleanup, ing_offer>>

SeqQuery(req) ==
  /\ pc["q1"] = "idle"
  /\ pc' = [pc EXCEPT !["q1"] = "q_done"]
  /\ q_req' = [q_req EXCEPT !["q1"] = req]
  /\ q_resp' = [q_resp EXCEPT !["q1"] = QueryFor(dense_store, Index, req)]
  /\ q_filtered' = [q_filtered EXCEPT !["q1"] = QueryFiltered(dense_store, Index, req)]
  /\ UNCHANGED <<shared, locks, q_after_cleanup, ing_offer, cleaned>>

NextQuery ==
  \/ \E offer \in Catalogue : SeqIngest(offer)
  \/ \E req \in QueryRequests : SeqQuery(req)

SpecQuery == Init /\ [][NextQuery]_vars

(***************************************************************************)
(* SpecTree: the RegionTree alone under its three mutators.                *)
(***************************************************************************)
TreeRegions == {0, 1, 7, 8, 21}

RECURSIVE SumLen(_, _)
SumLen(tree, S) ==
  IF S = {} THEN 0
  ELSE LET r == CHOOSE x \in S : TRUE IN Len(tree[r].offers) + SumLen(tree, S \ {r})

Registered == SumLen(regions, TreeRegions)

TreeInsertOffer(region_id, offer_idx) ==
  /\ Registered < MaxTreeOffers
  /\ regions' = InsertOffer(regions, region_id, offer_idx)
  /\ UNCHANGED <<dense_store, days_map, windows, locks, pc, qlocal, ing_offer, cleaned>>

TreeInsertOffers(region_id, offer_idxs) ==
  /\ Registered + Len(offer_idxs) <= MaxTreeOffers
  /\ regions' = InsertOffers(regions, region_id, offer_idxs)
  /\ UNCHANGED <<dense_store, days_map, windows, locks, pc, qlocal, ing_offer, cleaned>>

TreeClearOffers ==
  /\ regions' = ClearOffers(regions)
  /\ UNCHANGED <<dense_store, days_map, windows, locks, pc, qlocal, ing_offer, cleaned>>

NextTree ==
  \/ \E r \in TreeRegions : \E i \in 0 .. MaxIdx : TreeInsertOffer(r, i)
  \/ \E r \in TreeRegions : \E i, j \in 0 .. MaxIdx : TreeInsertOffers(r, <<i, j>>)
  \/ TreeClearOffers

SpecTree == Init /\ [][NextTree]_vars

(***************************************************************************)
(* The region description read directly, without the table or the          *)
(* traversal: the ids in the subtree of each region.                       *)
(***************************************************************************)
RECURSIVE IdsIn(_)
IdsIn(node) ==
  {node.id} \cup UNION {IdsIn(node.subregions[i]) : i \in DOMAIN node.subregions}

RECURSIVE SubtreeIdsFrom(_, _)
SubtreeIdsFrom(node, R) ==
  IF node.id = R THEN IdsIn(node)
  ELSE UNION {SubtreeIdsFrom(node.subregions[i], R) : i \in DOMAIN node.subregions}

SubtreeIds == [R \in RegionIds |-> SubtreeIdsFrom(ROOT_REGION, R)]

Count(s, v) == Cardinality({i \in DOMAIN s : s[i] = v})

\* how often v is registered directly at the regions of S
DirectCount(S, v) ==
  Cardinality(UNION {{<<r, i>> : i \in {j \in DOMAIN regions[r].offers :
                                           regions[r].offers[j] = v}} : r \in S})

RegisteredIdxs == UNION {Range(regions[r].offers) : r \in RegionIds}

(***************************************************************************)
(* C8. Subtree transitivity: get_available_offers(R) yields, with           *)
(* multiplicity, exactly the indices registered at R or at a transitive     *)
(* descendant of R, and none registered anywhere else.                      *)
(***************************************************************************)
C8_SubtreeTransitivity ==
  \A R \in RegionIds :
    LET yielded == GetAvailableOffers(regions, R)
    IN /\ Range(yielded) \subseteq RegisteredIdxs
       /\ \A v \in RegisteredIdxs : Count(yielded, v) = DirectCount(SubtreeIds[R], v)

\* region 7 and its descendant 21 both hold index 1, its sibling 8 holds 0:
\* the enumeration at 7 yields 1 twice and not 0
C8_Witness ==
  /\ regions[7].offers = <<1>>
  /\ regions[21].offers = <<1>>
  /\ regions[8].offers = <<0>>
  /\ GetAvailableOffers(regions, 7) = <<1, 1>>
  /\ GetAvailableOffers(regions, 1) = <<1, 1, 0>>

(***************************************************************************)
(* The five predicates as the design states them, and the facet totals.    *)
(***************************************************************************)
Dims == {"price", "km", "vollkasko", "car_type", "seats"}

P_seats(req, o) ==
  ~req.min_number_seats.some \/ o.number_seats >= req.min_number_seats.val

P_car_type(req, o) == ~req.car_type.some \/ o.car_type = req.car_type.val

P_vollkasko(req, o) ==
  ~req.only_vollkasko.some \/ ~req.only_vollkasko.val \/ o.has_vollkasko

P_km(req, o) ==
  ~req.min_free_kilometer.some \/ o.free_kilometers >= req.min_free_kilometer.val

P_price(req, o) ==
  /\ (~req.min_price.some \/ req.min_price.val <= o.price)
  /\ (~req.max_price.some \/ o.price < req.max_price.val)

P(D, req, o) ==
  CASE D = "price" -> P_price(req, o)
    [] D = "km" -> P_km(req, o)
    [] D = "vollkasko" -> P_vollkasko(req, o)
    [] D = "car_type" -> P_car_type(req, o)
    [] D = "seats" -> P_seats(req, o)

AllBut(D, req, o) == \A E \in Dims \ {D} : P(E, req, o)

AllFive(req, o) == \A D \in Dims : P(D, req, o)

NumFalse(req, o) == Cardinality({D \in Dims : ~P(D, req, o)})

RECURSIVE SumMap(_)
SumMap(m) ==
  IF DOMAIN m = {} THEN 0
  ELSE LET k == CHOOSE x \in DOMAIN m : TRUE
       IN m[k] + SumMap([x \in DOMAIN m \ {k} |-> m[x]])

RECURSIVE SumCounts(_)
SumCounts(S) ==
  IF S = {} THEN 0
  ELSE LET e == CHOOSE x \in S : TRUE IN e.count + SumCounts(S \ {e})

FacetTotal(D, acc) ==
  CASE D = "price" -> SumMap(acc.price_range_interval_mapping)
    [] D = "km" -> SumMap(acc.free_kilometers_interval_mapping)
    [] D = "vollkasko" -> acc.vollkasko_count.true_count + acc.vollkasko_count.false_count
    [] D = "car_type" -> acc.car_type_count.small + acc.car_type_count.sports
                           + acc.car_type_count.luxury + acc.car_type_count.family
    [] D = "seats" -> SumMap(acc.seats_count_map)

RespTotal(D, resp) ==
  CASE D = "price" -> SumCounts(Range(resp.price_ranges))
    [] D = "km" -> SumCounts(Range(resp.free_kilometer_range))
    [] D = "vollkasko" -> resp.vollkasko_count.true_count + resp.vollkasko_count.false_count
    [] D = "car_type" -> resp.car_type_counts.small + resp.car_type_counts.sports
                           + resp.car_type_counts.luxury + resp.car_type_counts.family
    [] D = "seats" -> SumCounts(resp.seats_count)

\* a query has built its response without aborting
Done(t) == pc[t] = "q_done" /\ q_resp[t].status = "ok"

Cands(t) == CandidateOffers(dense_store, Index, q_req[t])

(***************************************************************************)
(* C1. All-but-self facet law: every candidate offer adds exactly 1 to a   *)
(* facet's aggregate iff it satisfies the four predicates other than the   *)
(* facet's own, and adds nothing otherwise; so the totals of the response  *)
(* count exactly those candidates.                                         *)
(***************************************************************************)
C1_AllButSelfFacetLaw ==
  \A t \in Queries : Done(t) =>
    LET cands == Cands(t)
        req == q_req[t]
    IN /\ \A k \in 1 .. Len(cands) :
            LET before == HandleOffers(AccInit, req, SubSeq(cands, 1, k - 1))
                after == HandleOffer(before, req, cands[k])
            IN \A D \in Dims :
                 FacetTotal(D, after) - FacetTotal(D, before)
                   = IF AllBut(D, req, cands[k]) THEN 1 ELSE 0
       /\ \A D \in Dims :
            RespTotal(D, q_resp[t])
              = Cardinality({k \in 1 .. Len(cands) : AllBut(D, req, cands[k])})

\* one candidate passes all five, one fails exactly one, one fails two
C1_Witness ==
  \E t \in Queries :
    /\ Done(t)
    /\ \E i, j, k \in 1 .. Len(Cands(t)) :
         /\ NumFalse(q_req[t], Cands(t)[i]) = 0
         /\ NumFalse(q_req[t], Cands(t)[j]) = 1
         /\ NumFalse(q_req[t], Cands(t)[k]) >= 2
    /\ \E D \in Dims : RespTotal(D, q_resp[t]) = 2
    /\ \E D \in Dims : RespTotal(D, q_resp[t]) = 1

(***************************************************************************)
(* C2. A candidate offer is in the unpaginated result set iff it satisfies *)
(* all five predicates, and every offer returned on any page is such an    *)
(* offer.                                                                  *)
(***************************************************************************)
\* the offers field of the response to the same request asked with another
\* page: the loop is the same, sort_orders_and_paginate gets the other page
PageOf(unsorted, req, page) ==
  SortOrdersAndPaginate(unsorted, [req EXCEPT !.page = page])

Unsorted(t) == QueryAcc(dense_store, Index, q_req[t]).filtered_offers

C2_ResultSetLaw ==
  \A t \in Queries : Done(t) =>
    LET cands == Cands(t)
        req == q_req[t]
        result == Range(q_filtered[t])
        passing == {k \in 1 .. Len(cands) : AllFive(req, cands[k])}
    IN /\ \A k \in 1 .. Len(cands) : cands[k] \in result <=> k \in passing
       /\ result \subseteq Range(cands)
       /\ Len(q_filtered[t]) = Cardinality(passing)
       /\ LET unsorted == Unsorted(t)
          IN /\ \A page \in 0 .. MaxPage + 1 :
                  \A r \in Range(PageOf(unsorted, req, page)) :
                    \E k \in passing : ResponseOfferOf(cands[k]) = r
             /\ q_resp[t].offers = PageOf(unsorted, req, req.page)

\* a returned offer, a candidate that was left out, and a returned offer
\* with exactly min_number_seats seats
C2_Witness ==
  \E t \in Queries :
    /\ Done(t)
    /\ q_resp[t].offers # <<>>
    /\ \E k \in 1 .. Len(Cands(t)) : Cands(t)[k] \notin Range(q_filtered[t])
    /\ \E k \in 1 .. Len(Cands(t)) :
         /\ q_req[t].min_number_seats.some
         /\ Cands(t)[k].number_seats = q_req[t].min_number_seats.val
         /\ Cands(t)[k] \in Range(q_filtered[t])

(***************************************************************************)
(* C3. Cleanup is atomic with respect to queries: no query holds its two   *)
(* shared locks while a cleanup has emptied the index and has not yet      *)
(* emptied the store.                                                      *)
(***************************************************************************)
HoldsBothShared(t) == t \in store_lock.readers /\ t \in index_lock.readers

BetweenTheTwoClears(c) == pc[c] \in {"c_wait_store", "c_clear_store"}

C3_CleanupAtomicForQueries ==
  ~ \E c \in Cleanups : \E t \in Queries :
      /\ BetweenTheTwoClears(c)
      /\ HoldsBothShared(t)
      /\ dense_store # <<>>

(***************************************************************************)
(* C4. Every offer index stored in a region node is smaller than the       *)
(* length of the offer store, in every reachable state.                    *)
(***************************************************************************)
C4_IndexInRange ==
  \A r \in RegionIds : \A i \in DOMAIN regions[r].offers :
    regions[r].offers[i] < Len(dense_store)

(***************************************************************************)
(* C5. A query called after a cleanup has returned, with no ingest since,  *)
(* returns the empty response.  (Stated for the regions of the table; the  *)
(* other region ids are the subject of C10.)                               *)
(***************************************************************************)
EmptyResponse ==
  [status |-> "ok", offers |-> <<>>, price_ranges |-> <<>>,
   car_type_counts |-> [small |-> 0, sports |-> 0, luxury |-> 0, family |-> 0],
   seats_count |-> {}, free_kilometer_range |-> <<>>,
   vollkasko_count |-> [true_count |-> 0, false_count |-> 0]]

C5_EmptyAfterCleanup ==
  \A t \in Queries :
    (/\ pc[t] = "q_done"
     /\ q_after_cleanup[t]
     /\ cleaned
     /\ q_req[t].region_id \in RegionIds)
    => q_resp[t] = EmptyResponse

(***************************************************************************)
(* C6. The unpaginated result set is ordered by price, ascending or        *)
(* descending as asked, and offers of equal price by id ascending in both  *)
(* directions; sorting keeps every offer of the result set.                *)
(***************************************************************************)
C6_SortedByPriceThenId ==
  \A t \in Queries : Done(t) =>
    LET s == q_filtered[t]
        asc == q_req[t].sort_order = "PriceAsc"
    IN /\ \A i, j \in DOMAIN s : i < j =>
            /\ asc => s[i].price <= s[j].price
            /\ ~asc => s[i].price >= s[j].price
            /\ s[i].price = s[j].price => s[i].id <= s[j].id
       /\ BagOfSeq(s) = BagOfSeq(Unsorted(t))

\* descending order, three results, two of them tied on price with the
\* larger id stored first
C6_Witness ==
  \E t \in Queries :
    /\ Done(t)
    /\ q_req[t].sort_order = "PriceDesc"
    /\ Len(q_filtered[t]) = 3
    /\ q_filtered[t][1].price > q_filtered[t][2].price
    /\ q_filtered[t][2].price = q_filtered[t][3].price
    /\ q_filtered[t][2].id < q_filtered[t][3].id
    /\ q_filtered[t][2].idx > q_filtered[t][3].idx

(***************************************************************************)
(* C7. Page p holds exactly the elements at positions                      *)
(* [p*page_size, (p+1)*page_size) of the sorted result set, and the pages  *)
(* 0, 1, 2, ... concatenated are the sorted result set.                    *)
(***************************************************************************)
SliceOf(s, page, page_size) ==
  LET lo == page * page_size
      hi == Min2(Len(s), (page + 1) * page_size)
  IN [i \in 1 .. (IF hi > lo THEN hi - lo ELSE 0) |-> ResponseOfferOf(s[lo + i])]

OtherFour(req, o) ==
  P_seats(req, o) /\ P_car_type(req, o) /\ P_vollkasko(req, o) /\ P_km(req, o)

CountedInPriceRanges(resp, o) ==
  \E r \in Range(resp.price_ranges) :
    r.start <= o.price /\ o.price < r.end /\ r.count >= 1

C9_PriceBounds ==
  \A t \in Queries : Done(t) =>
    LET req == q_req[t]
        cands == Cands(t)
        result == Range(q_filtered[t])
    IN /\ \A o \in Range(cands) : OtherFour(req, o) =>
            /\ o \in result <=>
                 /\ (req.min_price.some => req.min_price.val <= o.price)
                 /\ (req.max_price.some => o.price < req.max_price.val)
            /\ (req.max_price.some /\ o.price = req.max_price.val) => o \notin result
            /\ CountedInPriceRanges(q_resp[t], o)
       /\ RespTotal("price", q_resp[t])
            = Cardinality({k \in 1 .. Len(cands) : OtherFour(req, cands[k])})

\* one candidate priced at max_price is left out and counted, one priced at
\* min_price is returned
C9_Witness ==
  \E t \in Queries :
    /\ Done(t)
    /\ q_req[t].min_price.some
    /\ q_req[t].max_price.some
    /\ \E o \in Range(Cands(t)) :
         /\ OtherFour(q_req[t], o)
         /\ o.price = q_req[t].max_price.val
         /\ o \notin Range(q_filtered[t])
         /\ CountedInPriceRanges(q_resp[t], o)
    /\ \E o \in Range(Cands(t)) :
         /\ o.price = q_req[t].min_price.val
         /\ ResponseOfferOf(o) \in Range(q_resp[t].offers)

(***************************************************************************)
(* C10. A query whose region_id lies outside 0..124 returns the empty      *)
(* response.                                                               *)
(***************************************************************************)
C10_OutOfRangeRegionIsEmpty ==
  \A t \in Queries :
    (pc[t] = "q_done" /\ q_req[t].region_id \notin RegionIds)
    => q_resp[t] = EmptyResponse

(***************************************************************************)
(* u32 arithmetic of the histogram code (db_manager.rs:217-218, 230-231,   *)
(* 164, 174).  A u32 is kept as two 16-bit halves so that values next to   *)
(* 2^32 can be written down; the width is a small u32 given as a number.   *)
(***************************************************************************)
Half == 2 ^ 16

U32(hi, lo) == [hi |-> hi, lo |-> lo]

U32Lt(a, b) == a.hi < b.hi \/ (a.hi = b.hi /\ a.lo < b.lo)

U32Le(a, b) == a = b \/ U32Lt(a, b)

\* a / w
U32Div(a, w) ==
  [hi |-> a.hi \div w, lo |-> ((a.hi % w) * Half + a.lo) \div w]

\* a % w
U32Rem(a, w) == ((a.hi % w) * Half + a.lo) % w

\* a * w, with the carry out of bit 31
U32Mul(a, w) ==
  LET lo == a.lo * w
      hi == a.hi * w + lo \div Half
  IN [val |-> U32(hi % Half, lo % Half), overflow |-> hi >= Half]

\* a + w, with the carry out of bit 31
U32Add(a, w) ==
  LET lo == a.lo + w
      hi == a.hi + lo \div Half
  IN [val |-> U32(hi % Half, lo % Half), overflow |-> hi >= Half]

\* handle_price_range / handle_free_kilometers_range: lower_bound
LowerBound(value, width) == U32Mul(U32Div(value, width), width)

\* query_for, lines 162-166 and 172-176: one emitted range entry.  An
\* overflowing u32 operation panics in a build with overflow checks and
\* wraps in a build without them.
RangeEntry(value, width, overflow_checks) ==
  LET key == LowerBound(value, width)
      end == U32Add(key.val, width)
  IN IF (key.overflow \/ end.overflow) /\ overflow_checks
     THEN [status |-> "panic"]
     ELSE [status |-> "ok", start |-> key.val, end |-> end.val, count |-> 1]

MaxWidth == 5

MaxLow == 2

Lows == (0 .. MaxLow) \cup ((Half - 1 - MaxLow) .. (Half - 1))

BucketValues == {U32(hi, lo) : hi \in {0, 1, Half - 2, Half - 1}, lo \in Lows}

\* SpecBucket: the bucketing of one value; q_req holds the input and
\* q_resp the emitted entry.
Bucket(value, width, overflow_checks) ==
  /\ pc["q1"] = "idle"
  /\ pc' = [pc EXCEPT !["q1"] = "q_done"]
  /\ q_req' = [q_req EXCEPT !["q1"] = [value |-> value, width |-> width]]
  /\ q_resp' = [q_resp EXCEPT !["q1"] = RangeEntry(value, width, overflow_checks)]
  /\ UNCHANGED <<shared, locks, q_filtered, q_after_cleanup, ing_offer, cleaned>>

NextBucket ==
  \E value \in BucketValues : \E width \in 1 .. MaxWidth :
    \E overflow_checks \in BOOLEAN : Bucket(value, width, overflow_checks)

SpecBucket == Init /\ [][NextBucket]_vars

\* the sum k + w as a number, not reduced modulo 2^32
ExactAdd(a, w) == U32((a.hi + (a.lo + w) \div Half), (a.lo + w) % Half)

BucketDone == pc["q1"] = "q_done" /\ "value" \in DOMAIN q_req["q1"]

\* C11: for every value v and width w > 0 the emitted entry has
\* start = k = floor(v/w)*w with k <= v < k + w, and end = k + w.
C11_HistogramBucketing ==
  BucketDone =>
    LET v == q_req["q1"].value
        w == q_req["q1"].width
        e == q_resp["q1"]
    IN /\ e.status = "ok"
       /\ U32Rem(e.start, w) = 0
       /\ U32Le(e.start, v)
       /\ U32Lt(v, ExactAdd(e.start, w))
       /\ e.end = ExactAdd(e.start, w)

\* the part of C11 that holds: the key is floor(v/w)*w and k <= v < k + w
C11_KeyIsFloor ==
  (BucketDone /\ q_resp["q1"].status = "ok") =>
    LET v == q_req["q1"].value
        w == q_req["q1"].width
        e == q_resp["q1"]
    IN /\ U32Rem(e.start, w) = 0
       /\ U32Le(e.start, v)
       /\ U32Lt(v, ExactAdd(e.start, w))

(***************************************************************************)
(* SpecDays: the NumberOfDaysIndex alone under index_offer and clear;      *)
(* ing_offer holds the argument of the last index_offer call.              *)
(***************************************************************************)
MaxDaysEntries == 2

MaxDays == 2

DayLengths ==
  UNION {{d * MsPerDay, (d + 1) * MsPerDay - 1} : d \in 0 .. MaxDays} \ {0}

DayOffers ==
  {[idx |-> i, start_date |-> s, end_date |-> s + l] :
     i \in 0 .. MaxIdx, s \in {0, MsPerDay}, l \in DayLengths}

RECURSIVE SumBuckets(_, _)
SumBuckets(map, S) ==
  IF S = {} THEN 0
  ELSE LET d == CHOOSE x \in S : TRUE IN Len(map[d]) + SumBuckets(map, S \ {d})

DaysEntries == SumBuckets(days_map, DOMAIN days_map)

DaysIndexOffer(offer) ==
  /\ DaysEntries < MaxDaysEntries
  /\ days_map' = IndexOffer(days_map, offer)
  /\ ing_offer' = [ing_offer EXCEPT !["i1"] = offer]
  /\ UNCHANGED <<dense_store, regions, windows, locks, pc, qlocal, cleaned>>

\* NumberOfDaysIndex::clear
DaysClear ==
  /\ days_map' = EmptyMap
  /\ ing_offer' = [ing_offer EXCEPT !["i1"] = NoOffer]
  /\ UNCHANGED <<dense_store, regions, windows, locks, pc, qlocal, cleaned>>

NextDays ==
  \/ \E offer \in DayOffers : DaysIndexOffer(offer)
  \/ DaysClear

SpecDays == Init /\ [][NextDays]_vars

\* sequences of offer indices handed to filter_offers
IdxSeqs ==
  {<<>>} \cup {<<i>> : i \in 0 .. MaxIdx}
         \cup {<<i, j>> : i \in 0 .. MaxIdx, j \in 0 .. MaxIdx}
         \cup {<<i, j, i>> : i \in 0 .. MaxIdx, j \in 0 .. MaxIdx}

HasFloorDays(offer, d) ==
  /\ d * MsPerDay <= offer.end_date - offer.start_date
  /\ offer.end_date - offer.start_date < (d + 1) * MsPerDay

InBucket(map, d, i) == d \in DOMAIN map /\ \E n \in 1 .. Len(map[d]) : map[d][n] = i

\* C12: index_offer appends the offer's idx to the bucket keyed by
\* floor((end - start) / 86_400_000) and to no other; filter_offers(d, seq)
\* yields exactly the elements of seq that are in bucket d, in the order of
\* seq, and nothing when bucket d does not exist.
C12_DurationFilter ==
  [][\A d \in 0 .. MaxDays + 1 :
       /\ \A i \in 0 .. MaxIdx :
            InBucket(days_map', d, i) <=>
              IF ing_offer'["i1"] = NoOffer THEN FALSE
              ELSE \/ InBucket(days_map, d, i)
                   \/ i = ing_offer'["i1"].idx /\ HasFloorDays(ing_offer'["i1"], d)
       /\ \A seq \in IdxSeqs :
            FilterOffers(days_map', d, seq)
              = SelectSeq(seq, LAMBDA i : InBucket(days_map', d, i))
       /\ d \notin DOMAIN days_map' =>
            \A seq \in IdxSeqs : FilterOffers(days_map', d, seq) = <<>>]_vars

\* a two-day offer is indexed next to a one-day offer with another idx, and
\* filtering a sequence that names both keeps only the one asked for
C12_Witness ==
  /\ ing_offer["i1"] # NoOffer
  /\ HasFloorDays(ing_offer["i1"], 2)
  /\ ing_offer["i1"].start_date > 0
  /\ ing_offer["i1"].idx = 1
  /\ InBucket(days_map, 1, 0)
  /\ FilterOffers(days_map, 2, <<0, 1, 0>>) = <<1>>
  /\ FilterOffers(days_map, 1, <<0, 1, 0>>) = <<0, 0>>
  /\ FilterOffers(days_map, 0, <<0, 1, 0>>) = <<>>

(***************************************************************************)
(* SpecRound: one caller at a time, offers of several regions, lengths and *)
(* windows, and requests that set none of the optional filters.            *)
(***************************************************************************)
RoundCatalogue ==
  {MkOffer(1, 58, 0, MsPerDay, 4, 10, "Small", TRUE, 10),
   MkOffer(2, 7, 1, 2 * MsPerDay + 1, 4, 10, "Small", TRUE, 10),
   MkOffer(3, 7, MsPerDay, 2 * MsPerDay, 4, 10, "Small", TRUE, 10),
   MkOffer(4, 8, 0, MsPerDay, 4, 10, "Small", TRUE, 10),
   MkOffer(5, 21, 1, 2 * MsPerDay, 4, 10, "Small", TRUE, 10)}

RoundRequests ==
  {[MkRequest(region_id, "PriceAsc", 0, MaxPageSize, None, None, None, None, None, None)
      EXCEPT !.number_days = number_days, !.time_range_start = from,
             !.time_range_end = to] :
     region_id \in {0, 1, 7, 21}, number_days \in {1, 2}, from \in {0, 1},
     to \in {MsPerDay, 2 * MsPerDay, 2 * MsPerDay + 1}}

NextRound ==
  \/ \E offer \in RoundCatalogue : SeqIngest(offer)
  \/ \E req \in RoundRequests : SeqQuery(req)

SpecRound == Init /\ [][NextRound]_vars

NoOptionalFilter(req) ==
  /\ req.min_number_seats = None /\ req.car_type = None
  /\ req.only_vollkasko = None /\ req.min_free_kilometer = None
  /\ req.min_price = None /\ req.max_price = None

InSubtree(req, offer) == offer.most_specific_region_id \in SubtreeIds[req.region_id]

DaysMatch(req, offer) == HasFloorDays(offer, req.number_days)

WindowEnclosed(req, offer) ==
  req.time_range_start <= offer.start_date /\ offer.end_date <= req.time_range_end

\* C13: a query without optional filters has as its unpaginated result set
\* exactly the stored offers registered in the subtree of region_id whose
\* day count equals number_days and whose window the request encloses.
C13_RoundTrip ==
  (Done("q1") /\ NoOptionalFilter(q_req["q1"])) =>
    LET req == q_req["q1"]
        result == q_filtered["q1"]
        expected == {i \in DOMAIN dense_store :
                       /\ InSubtree(req, dense_store[i])
                       /\ DaysMatch(req, dense_store[i])
                       /\ WindowEnclosed(req, dense_store[i])}
    IN /\ Range(result) = {dense_store[i] : i \in expected}
       /\ Len(result) = Cardinality(expected)

\* the store holds an offer that is returned, one of the subtree that fails
\* only the day count and one of the subtree that fails only the window
C13_Witness ==
  /\ Done("q1") /\ NoOptionalFilter(q_req["q1"])
  /\ Len(q_filtered["q1"]) > 0
  /\ \E i \in DOMAIN dense_store :
       /\ InSubtree(q_req["q1"], dense_store[i])
       /\ WindowEnclosed(q_req["q1"], dense_store[i])
       /\ ~DaysMatch(q_req["q1"], dense_store[i])
  /\ \E i \in DOMAIN dense_store :
       /\ InSubtree(q_req["q1"], dense_store[i])
       /\ DaysMatch(q_req["q1"], dense_store[i])
       /\ ~WindowEnclosed(q_req["q1"], dense_store[i])

InsideQuery(t) == pc[t] \in {"q_run", "q_done"}

\* C14: a query holds shared access to the store and to the index from
\* before it reads its first candidate until its response is complete, and
\* no step of a cleanup or of an ingest changes a structure while a query
\* holds shared access to it.
C14_QueriesHoldSharedAccess ==
  [][/\ \A t \in Queries : InsideQuery(t)' => HoldsBothShared(t)'
     /\ store_lock.readers # {} => dense_store' = dense_store
     /\ index_lock.readers # {} =>
          /\ regions' = regions
          /\ days_map' = days_map
          /\ windows' = windows]_vars

\* two queries are inside the section at the same time, over a non-empty
\* store, while a cleanup waits for the index
C14_Witness ==
  /\ pc["q1"] = "q_run" /\ pc["q2"] = "q_done"
  /\ HoldsBothShared("q1") /\ HoldsBothShared("q2")
  /\ dense_store # <<>>
  /\ pc["c1"] = "c_wait_index"

(***************************************************************************)
(* SpecCleanup: one caller at a time; a cleanup runs from call to return   *)
(* in one step.  pc["c1"] tells whether the last call was a cleanup        *)
(* ("c_done") or the last two calls were ("c_done_again").                 *)
(***************************************************************************)
SeqCleanup ==
  /\ regions' = IndexTreeClearOffers(Index).tree
  /\ days_map' = IndexTreeClearOffers(Index).map
  /\ windows' = IndexTreeClearOffers(Index).wins
  /\ dense_store' = <<>>
  /\ cleaned' = TRUE
  /\ pc' = [pc EXCEPT !["c1"] = IF cleaned THEN "c_done_again" ELSE "c_done"]
  /\ UNCHANGED <<locks, qlocal, ing_offer>>

NextCleanup ==
  \/ \E offer \in Catalogue : SeqIngest(offer)
  \/ SeqCleanup

SpecCleanup == Init /\ [][NextCleanup]_vars

AllEmpty ==
  /\ dense_store = <<>>
  /\ \A r \in RegionIds : regions[r].offers = <<>>
  /\ days_map = EmptyMap

PopulatedTree == PopulateWithRegions(ROOT_REGION)

SameTopology ==
  \A r \in RegionIds : regions[r].sub_regions = PopulatedTree[r].sub_regions

\* C15: a cleanup that directly follows a cleanup leaves the store, every
\* region's offers list and the day-count index as the first left them
\* (empty), and no cleanup changes a child list.
C15_CleanupIdempotent ==
  [][/\ SameTopology'
     /\ cleaned' => AllEmpty'
     /\ (cleaned /\ cleaned') =>
          /\ dense_store' = dense_store
          /\ regions' = regions
          /\ days_map' = days_map]_vars

\* a second cleanup has just returned
C15_Witness == pc["c1"] = "c_done_again" /\ cleaned /\ AllEmpty /\ SameTopology

(***************************************************************************)
(* The pre-order of the region description, read from ROOT_REGION itself.  *)
(***************************************************************************)
RECURSIVE NodesIn(_)
NodesIn(node) ==
  {node} \cup UNION {NodesIn(node.subregions[i]) : i \in DOMAIN node.subregions}

NodeOf == [R \in RegionIds |-> CHOOSE node \in NodesIn(ROOT_REGION) : node.id = R]

RECURSIVE PreOrderOf(_, _)
RECURSIVE PreOrderOfChildren(_, _, _)
PreOrderOfChildren(tree, node, i) ==
  IF i > Len(node.subregions) THEN <<>>
  ELSE PreOrderOf(tree, node.subregions[i]) \o PreOrderOfChildren(tree, node, i + 1)

PreOrderOf(tree, node) == tree[node.id].offers \o PreOrderOfChildren(tree, node, 1)

IsPrefix(s, t) == Len(s) <= Len(t) /\ SubSeq(t, 1, Len(s)) = s

\* C16: get_available_offers(R) yields R's own indices in registration
\* order, then the whole enumeration of each child subtree, the children in
\* the order the region description declares them.
C16_PreOrder ==
  [][/\ \A R \in RegionIds :
          GetAvailableOffers(regions', R) = PreOrderOf(regions', NodeOf[R])
     /\ \A R \in RegionIds :
          \/ regions'[R].offers = <<>>
          \/ IsPrefix(regions[R].offers, regions'[R].offers)]_vars

\* region 7 holds 1 then 0 and its later sibling 8 holds 1: the enumeration
\* at their parent 1, and at the root, is 1, 0, 1
C16_Witness ==
  /\ regions[7].offers = <<1, 0>>
  /\ regions[8].offers = <<1>>
  /\ GetAvailableOffers(regions, 1) = <<1, 0, 1>>
  /\ GetAvailableOffers(regions, 0) = <<1, 0, 1>>

\* the ids that name `id` as a child, once per occurrence
ParentsOf(id) ==
  UNION {{<<r, k>> : k \in {n \in DOMAIN regions[r].sub_regions :
                              regions[r].sub_regions[n] = id}} : r \in RegionIds}

RECURSIVE ReachableFrom(_)
ReachableFrom(S) ==
  LET next == S \cup UNION {Range(regions[r].sub_regions) : r \in S}
  IN IF next = S THEN S ELSE ReachableFrom(next)

\* C17: the region table is a rooted tree over 0..124: 0 is nobody's
\* child, every other id is the child of exactly one region, every id is
\* reachable from 0; so the enumeration at 0 yields every registration
\* exactly once.
C17_RootedTree ==
  /\ DOMAIN regions = 0 .. 124
  /\ ParentsOf(0) = {}
  /\ \A id \in 1 .. 124 : Cardinality(ParentsOf(id)) = 1
  /\ ReachableFrom({0}) = 0 .. 124
  /\ LET yielded == GetAvailableOffers(regions, 0)
     IN /\ Range(yielded) = RegisteredIdxs
        /\ \A v \in RegisteredIdxs : Count(yielded, v) = DirectCount(RegionIds, v)

\* offers are registered at the root, at a leaf-ward region (21) and in
\* another branch (8); the enumeration at 0 holds each registration once
C17_Witness ==
  /\ regions[0].offers = <<1>>
  /\ regions[21].offers = <<0>>
  /\ regions[8].offers = <<1>>
  /\ GetAvailableOffers(regions, 0) = <<1, 0, 1>>

\* the candidates (by position) that contribute to the histogram of D
Contributors(D, req, cands) == {n \in DOMAIN cands : AllBut(D, req, cands[n])}

\* the law of one emitted range list, for the values and the contributors
RangeListLaw(list, width, vals, contributors) ==
  /\ \A i, j \in DOMAIN list : i < j => list[i].start < list[j].start
  /\ \A i \in DOMAIN list :
       /\ list[i].count > 0
       /\ list[i].count =
            Cardinality({n \in contributors :
                           list[i].start <= vals[n] /\ vals[n] < list[i].start + width})
  /\ \A n \in contributors :
       \E i \in DOMAIN list :
         list[i].start <= vals[n] /\ vals[n] < list[i].start + width

\* C18: price_ranges and free_kilometer_range are sorted by start strictly
\* ascending; every bucket that received a contribution appears exactly
\* once with the number of its contributors as count, and no bucket with
\* count 0 appears.
C18_RangesSortedAndCounted ==
  \A t \in Queries : Done(t) =>
    LET req == q_req[t]
        cands == Cands(t)
    IN /\ RangeListLaw(q_resp[t].price_ranges, req.price_range_width,
                       [n \in DOMAIN cands |-> cands[n].price],
                       Contributors("price", req, cands))
       /\ RangeListLaw(q_resp[t].free_kilometer_range, req.min_free_kilometer_width,
                       [n \in DOMAIN cands |-> cands[n].free_kilometers],
                       Contributors("km", req, cands))

\* the offer of the higher bucket was stored first; two buckets are emitted
\* for each histogram, one of them counting two offers
C18_Witness ==
  /\ Done("q1")
  /\ Len(dense_store) = 3
  /\ dense_store[1].price > dense_store[3].price
  /\ dense_store[1].free_kilometers > dense_store[3].free_kilometers
  /\ Len(q_resp["q1"].price_ranges) = 2
  /\ q_resp["q1"].price_ranges[2].count = 2
  /\ Len(q_resp["q1"].free_kilometer_range) = 2
  /\ q_resp["q1"].free_kilometer_range[2].count = 2

VollkaskoUnset(req) == [req EXCEPT !.only_vollkasko = None]

\* C19: an offer passes the insurance predicate when only_vollkasko is
\* unset, when it is false, or when the offer has vollkasko; so a request
\* with only_vollkasko = false gets the result set and the facets of the
\* same request with only_vollkasko unset.
C19_VollkaskoFalseIsUnset ==
  \A t \in Queries : Done(t) =>
    LET req == q_req[t]
        cands == Cands(t)
    IN /\ \A n \in DOMAIN cands :
            AllBut("vollkasko", req, cands[n]) =>
              (cands[n] \in Range(q_filtered[t]) <=>
                 \/ ~req.only_vollkasko.some
                 \/ ~req.only_vollkasko.val
                 \/ cands[n].has_vollkasko)
       /\ req.only_vollkasko = Some(FALSE) =>
            /\ q_resp[t] = QueryFor(dense_store, Index, VollkaskoUnset(req))
            /\ q_filtered[t] = QueryFiltered(dense_store, Index, VollkaskoUnset(req))

\* only_vollkasko = false, and the result holds an offer without vollkasko
\* next to one with it
C19_Witness ==
  /\ Done("q1")
  /\ q_req["q1"].only_vollkasko = Some(FALSE)
  /\ \E o \in Range(q_filtered["q1"]) : ~o.has_vollkasko
  /\ \E o \in Range(q_filtered["q1"]) : o.has_vollkasko
  /\ q_resp["q1"].vollkasko_count.false_count > 0

\* the candidate enumeration of the request ran to its end and yielded
\* no offer
NoCandidate(t) ==
  /\ pc[t] = "q_done"
  /\ RegionInBounds(regions, q_req[t].region_id)
  /\ CandidateIdxs(Index, q_req[t]) = <<>>

\* C20: when the candidate enumeration yields no offer, query_for returns
\* a successful response with empty offers, price_ranges,
\* free_kilometer_range and seats_count, and with car_type_counts and
\* vollkasko_count all zero.
C20_NoCandidateGivesEmptyResponse ==
  \A t \in Queries : NoCandidate(t) =>
    /\ q_resp[t].status = "ok"
    /\ q_resp[t].offers = <<>>
    /\ q_resp[t].price_ranges = <<>>
    /\ q_resp[t].free_kilometer_range = <<>>
    /\ q_resp[t].seats_count = {}
    /\ q_resp[t].car_type_counts = [small |-> 0, sports |-> 0, luxury |-> 0, family |-> 0]
    /\ q_resp[t].vollkasko_count = [true_count |-> 0, false_count |-> 0]

\* the store holds offers, all of them outside the subtree asked for
C20_Witness ==
  /\ NoCandidate("q1")
  /\ Len(dense_store) = 2
  /\ q_req["q1"].region_id = 7
  /\ q_resp["q1"].status = "ok"

(***************************************************************************)
(* SpecFair: queries and cleanups with the locks granted in the order of   *)
(* arrival, as tokio's RwLock does: a task that reaches read().await or    *)
(* write().await joins the lock's queue and is granted the lock when it is *)
(* first in the queue and the lock is free for it.                         *)
(***************************************************************************)
FairRequests == {r \in SmallRequests : r.sort_order = "PriceAsc"}

Enqueue(lock, t) == [lock EXCEPT !.waiters = Append(@, t)]

IsFirst(lock, t) == lock.waiters # <<>> /\ Head(lock.waiters) = t

GrantRead(lock, t) == [lock EXCEPT !.readers = @ \cup {t}, !.waiters = Tail(@)]

GrantWrite(lock, t) == [lock EXCEPT !.writer = t, !.waiters = Tail(@)]

\* line 43 is reached
FairQueryCall(t, req) ==
  /\ pc[t] = "idle"
  /\ pc' = [pc EXCEPT ![t] = "q_wait_store"]
  /\ q_req' = [q_req EXCEPT ![t] = req]
  /\ store_lock' = Enqueue(store_lock, t)
  /\ UNCHANGED <<shared, index_lock, q_resp, q_filtered, q_after_cleanup, ing_offer, cleaned>>

\* line 43 is granted, line 44 is reached
FairQueryLockStore(t) ==
  /\ pc[t] = "q_wait_store"
  /\ IsFirst(store_lock, t) /\ CanRead(store_lock)
  /\ store_lock' = GrantRead(store_lock, t)
  /\ index_lock' = Enqueue(index_lock, t)
  /\ pc' = [pc EXCEPT ![t] = "q_wait_index"]
  /\ UNCHANGED <<shared, qlocal, ing_offer, cleaned>>

\* line 44 is granted
FairQueryLockIndex(t) ==
  /\ pc[t] = "q_wait_index"
  /\ IsFirst(index_lock, t) /\ CanRead(index_lock)
  /\ index_lock' = GrantRead(index_lock, t)
  /\ pc' = [pc EXCEPT ![t] = "q_run"]
  /\ UNCHANGED <<shared, store_lock, qlocal, ing_offer, cleaned>>

\* line 473 is reached
FairCleanupCall(t) ==
  /\ pc[t] = "idle"
  /\ pc' = [pc EXCEPT ![t] = "c_wait_index"]
  /\ index_lock' = Enqueue(index_lock, t)
  /\ UNCHANGED <<shared, store_lock, qlocal, ing_offer, cleaned>>

\* line 473 is granted
FairCleanupLockIndex(t) ==
  /\ pc[t] = "c_wait_index"
  /\ IsFirst(index_lock, t) /\ CanWrite(index_lock)
  /\ index_lock' = GrantWrite(index_lock, t)
  /\ pc' = [pc EXCEPT ![t] = "c_clear_index"]
  /\ UNCHANGED <<shared, store_lock, qlocal, ing_offer, cleaned>>

FairCleanupClearIndexKeepsGuard(t) ==
  /\ pc[t] = "c_clear_index"
  /\ regions' = IndexTreeClearOffers(Index).tree
  /\ days_map' = IndexTreeClearOffers(Index).map
  /\ windows' = IndexTreeClearOffers(Index).wins
  /\ store_lock' = Enqueue(store_lock, t)
  /\ pc' = [pc EXCEPT ![t] = "c_wait_store"]
  /\ UNCHANGED <<dense_store, index_lock, qlocal, ing_offer, cleaned>>

\* lines 474-475: clear_offers(), the guard is dropped; line 477 is reached
FairCleanupClearIndex(t) ==
  /\ pc[t] = "c_clear_index"
  /\ regions' = IndexTreeClearOffers(Index).tree
  /\ days_map' = IndexTreeClearOffers(Index).map
  /\ windows' = IndexTreeClearOffers(Index).wins
  /\ index_lock' = [index_lock EXCEPT !.writer = "none"]
  /\ store_lock' = Enqueue(store_lock, t)
  /\ pc' = [pc EXCEPT ![t] = "c_wait_store"]
  /\ UNCHANGED <<dense_store, qlocal, ing_offer, cleaned>>

\* line 477 is granted
FairCleanupLockStore(t) ==
  /\ pc[t] = "c_wait_store"
  /\ IsFirst(store_lock, t) /\ CanWrite(store_lock)
  /\ store_lock' = GrantWrite(store_lock, t)
  /\ pc' = [pc EXCEPT ![t] = "c_clear_store"]
  /\ UNCHANGED <<shared, index_lock, qlocal, ing_offer, cleaned>>

\* the steps a started call takes by itself
FairStep(t) ==
  \/ FairQueryLockStore(t)
  \/ FairQueryLockIndex(t)
  \/ QueryRun(t)
  \/ QueryReturn(t)
  \/ FairCleanupLockIndex(t)
  \/ FairCleanupClearIndex(t)
  \/ FairCleanupLockStore(t)
  \/ CleanupClearStore(t)

NextFair ==
  \/ \E t \in Queries : \E req \in FairRequests : FairQueryCall(t, req)
  \/ \E t \in FairCleanups : FairCleanupCall(t)
  \/ \E t \in Queries \cup FairCleanups : FairStep(t)

\* every started call is scheduled again and again; calls need not start
SpecFair ==
  /\ Init
  /\ [][NextFair]_vars
  /\ \A t \in Queries \cup FairCleanups : WF_vars(FairStep(t))

HoldsNoLock(t) ==
  /\ store_lock.writer # t /\ t \notin store_lock.readers
  /\ index_lock.writer # t /\ t \notin index_lock.readers

\* C21: a cleanup never holds one lock while it waits for the other, and
\* with the locks granted fairly every started query and every started
\* cleanup eventually completes.
C21_NoDeadlock ==
  /\ [](\A c \in FairCleanups :
          pc[c] \in {"c_wait_index", "c_wait_store"} => HoldsNoLock(c))
  /\ \A t \in Queries \cup FairCleanups : (pc[t] # "idle") ~> (pc[t] = "idle")

\* a query holds the store and waits for the index behind a cleanup that
\* holds it, while the other cleanup waits for the store and the other
\* query is queued behind it
C21_Witness ==
  /\ pc["q1"] = "q_wait_index" /\ "q1" \in store_lock.readers
  /\ index_lock.writer = "c1"
  /\ pc["c2"] = "c_wait_store"
  /\ store_lock.waiters = <<"c2", "q2">>

QueryStepOf(t) == pc'[t] # pc[t]

\* C22: query_for is read-only: no step of a query changes the offer
\* store, a region's offers list or child list, or the day-count index, and
\* the response and the result list of a query are touched by no other
\* query.
C22_QueryIsReadOnly ==
  [][\A t \in Queries : QueryStepOf(t) =>
       /\ dense_store' = dense_store
       /\ regions' = regions
       /\ days_map' = days_map
       /\ windows' = windows
       /\ \A u \in Queries \ {t} :
            /\ q_resp'[u] = q_resp[u]
            /\ q_filtered'[u] = q_filtered[u]]_vars

\* a query has built a response that returns offers in another order than
\* the store holds them, beside a second query that has its own response
C22_Witness ==
  /\ Done("q1") /\ Done("q2")
  /\ Len(dense_store) = 2
  /\ Len(q_filtered["q1"]) = 2
  /\ q_filtered["q1"] # dense_store
  /\ q_resp["q2"] # q_resp["q1"]

(***************************************************************************)
(* SpecPages: one caller at a time; requests that filter and paginate.     *)
(***************************************************************************)
PagedFacetRequests ==
  {MkRequest(7, sort_order, page, page_size, seats, car_type, None, None, None, None) :
     sort_order \in {"PriceAsc", "PriceDesc"}, page \in 0 .. MaxPage,
     page_size \in 1 .. MaxPageSize, seats \in {None, Some(4)},
     car_type \in {None, Some("Small")}}

NextPages ==
  \/ \E offer \in Catalogue : SeqIngest(offer)
  \/ \E req \in PagedFacetRequests : SeqQuery(req)

SpecPages == Init /\ [][NextPages]_vars

FacetsOf(resp) ==
  [price_ranges |-> resp.price_ranges,
   free_kilometer_range |-> resp.free_kilometer_range,
   car_type_counts |-> resp.car_type_counts,
   seats_count |-> resp.seats_count,
   vollkasko_count |-> resp.vollkasko_count]

\* the requests one step away in page, page_size or sort_order, and the
\* first page
PagingVariants(req) ==
  {[req EXCEPT !.sort_order = IF @ = "PriceAsc" THEN "PriceDesc" ELSE "PriceAsc"],
   [req EXCEPT !.page = @ + 1],
   [req EXCEPT !.page_size = @ + 1],
   [req EXCEPT !.page = 0]}

PastTheEnd(t) == q_req[t].page * q_req[t].page_size >= Len(q_filtered[t])

====
